---- MODULE Spec2Model ----
(***************************************************************************)
(* Model of the container image deduplicator (src/src/analyzer.rs).        *)
(*                                                                         *)
(* An image is a chain of layers; each layer is a tar archive, stored raw  *)
(* or gzip-compressed.  The Analyzer scans every layer in parallel,        *)
(* groups the scanned files by content fingerprint, plans one link per     *)
(* duplicate, rewrites the layers that have a plan (again in parallel)     *)
(* and reassembles config, manifest and blobs into an output archive.      *)
(*                                                                         *)
(* Abstractions.  A tar stream is the sequence of its entries; an entry is *)
(* a record of the header fields the code reads or writes plus the content *)
(* bytes.  A file on disk is a record [gz, tar]: gz is what is_gzipped     *)
(* reads from the two magic bytes, tar is what the reader yields after     *)
(* decoding.  SHA-256 is modelled as collision free (the digest is a       *)
(* record wrapping the hashed bytes); rapidhash is a fixed-width          *)
(* fingerprint and is not injective.  Layer indices are 0-based as in the  *)
(* code.                                                                   *)
(***************************************************************************)
EXTENDS Integers, Sequences, FiniteSets, TLC

\* ---------------------------------------------------------------- bounds
NumLayers == 2
MaxEntries == 3
MaxMinSize == 2
MaxScanEntries == 2
HashSpace == 4
MaxRerunEntries == 4
MaxWrites == 3
MaxBuf == 2

LayerIdx == 0 .. (NumLayers - 1)

\* ------------------------------------------------------- sequence helpers
Range(s) == { s[k] : k \in 1 .. Len(s) }

SeqsUpTo(S, n) == UNION { [1 .. k -> S] : k \in 0 .. n }

RECURSIVE SumSeq(_)
SumSeq(s) == IF s = <<>> THEN 0 ELSE Head(s) + SumSeq(Tail(s))

RECURSIVE FilterSeq(_, _)
\* the subsequence of s whose elements are in the set S, order kept
FilterSeq(s, S) ==
    IF s = <<>> THEN <<>>
    ELSE IF Head(s) \in S THEN <<Head(s)>> \o FilterSeq(Tail(s), S)
         ELSE FilterSeq(Tail(s), S)

\* -------------------------------------------------------------- tar data
\* Path components that start with ".wh." and that end with ".wh..wh..opq".
WhComponents == { ".wh.a", ".wh..wh..opq" }
OpqComponents == { ".wh..wh..opq" }

\* path.contains("/.wh."): a component after a separator starts with ".wh."
ContainsWh(path) == \E k \in 2 .. Len(path) : path[k] \in WhComponents

\* path.ends_with(".wh..wh..opq")
EndsWithOpq(path) == Len(path) > 0 /\ path[Len(path)] \in OpqComponents

\* File contents: byte strings.  X and Y differ (in bytes and in length) and
\* share a fingerprint.
ContentX == << 1, 1 >>
ContentY == << 2 >>

\* rapidhash_v3_file_seeded: a fixed-width fingerprint of the byte stream.
rapidhash(content) == SumSeq(content) % HashSpace

\* An original tar entry: the header (path, type, declared size, the other
\* metadata) and the content.  The declared size is the content length.
FileEntry(path, content) ==
    [path |-> path, etype |-> "file", size |-> Len(content),
     content |-> content, linkname |-> <<>>, meta |-> "orig"]

OtherEntry(path, etype) ==
    [path |-> path, etype |-> etype, size |-> 0,
     content |-> <<>>, linkname |-> <<>>, meta |-> "orig"]

\* The entries the input layers of the pipeline are built from: the same
\* content under two paths, and a shorter content that collides with it.
PipelineEntries ==
    { FileEntry(<< "a" >>, ContentX), FileEntry(<< "b" >>, ContentX),
      FileEntry(<< "b" >>, ContentY) }

\* A content with a fingerprint of its own and the length of X.
ContentZ == << 3, 0 >>

\* The entries the layers of the re-execution specification are built from:
\* two contents of equal size with different fingerprints.
RerunEntries ==
    { FileEntry(<< "a" >>, ContentX), FileEntry(<< "b" >>, ContentZ) }

\* The entries the layer of the scan specification is built from: files of
\* both sizes and directories, under a plain path, under whiteout and
\* opaque-whiteout names below a directory and at the root of the archive.
ScanPaths ==
    { << "a" >>, << ".wh.a" >>, << "d", ".wh.a" >>,
      << ".wh..wh..opq" >>, << "d", ".wh..wh..opq" >> }
ScanEntries ==
    { FileEntry(p, c) : p \in ScanPaths, c \in { ContentX, ContentY } }
        \cup { OtherEntry(p, "dir") : p \in ScanPaths }

\* The tar streams of an image whose layers hold at most n entries in all:
\* a sequence of entries cut into NumLayers consecutive pieces.
SubSeqOrEmpty(s, lo, hi) == IF lo > hi THEN <<>> ELSE SubSeq(s, lo, hi)

Cuts(n) ==
    { c \in [0 .. NumLayers -> 0 .. n] :
        /\ c[0] = 0
        /\ c[NumLayers] = n
        /\ \A i \in LayerIdx : c[i] <= c[i + 1] }

ImageTars(pool, n) ==
    UNION { { [ i \in LayerIdx |-> SubSeqOrEmpty(s, c[i] + 1, c[i + 1]) ] :
                c \in Cuts(Len(s)) } : s \in SeqsUpTo(pool, n) }

\* A file on disk.
RawFile(tar) == [gz |-> FALSE, tar |-> tar]
GzFile(tar) == [gz |-> TRUE, tar |-> tar]

\* is_gzipped: the first two bytes are the gzip magic.
is_gzipped(file) == file.gz

\* GzDecoder: the stream a gzip file decodes to.
GzDecoder(file) == file.tar

\* Layer::open_reader: the decoded tar stream, whatever the storage.
open_reader(file) == IF is_gzipped(file) THEN GzDecoder(file) ELSE file.tar

\* Sha256 over a byte stream, as "sha256:<hex>" (diff id form) and as the
\* bare hex string (blob name form).
Sha256Hex(bytes) == [hex |-> bytes]
Sha256Prefixed(bytes) == [prefixed |-> Sha256Hex(bytes)]

\* The digest of the uncompressed tar bytes of a file on disk.
DiffIdOf(file) == Sha256Prefixed(RawFile(open_reader(file)))

\* ------------------------------------------------------------- variables
VARIABLES
    image,          \* extracted layer files: LayerIdx -> file on disk
    layers,         \* Analyzer.layers: LayerIdx -> Layer
    min_size,       \* Analyzer.min_size
    no_compression, \* Analyzer.no_compression
    pc,             \* position of the run
    scanRes,        \* per layer result of the parallel scan
    dupResult,      \* find_duplicates: its result and the files it scanned
    plan,           \* result of generate_modification_plan
    procRes,        \* per layer result of the parallel rewrite
    workFiles,      \* files written under new_layers/
    staging,        \* the staged output tree
    output,         \* the output archive file
    result,         \* result of create_deduplicated_image
    rerun,          \* result of a second execution of find_duplicates
    teeWriter       \* a TeeWriter over two byte sinks, with its last call

vars == << image, layers, min_size, no_compression, pc, scanRes, dupResult,
           plan, procRes, workFiles, staging, output, result, rerun,
           teeWriter >>

NoFile == [absent |-> TRUE]
Pending == [st |-> "pending"]

\* Layer values.
ExtractedPath(i) == << "extracted", i >>
NewLayerPath(i) == << "new_layers", i >>

\* load_from_tar: one Layer per manifest entry, its hash taken from the
\* config's diff_ids at the same index.
load_from_tar(img) ==
    [ i \in LayerIdx |->
        [path |-> ExtractedPath(i), layer_index |-> i, hash |-> DiffIdOf(img[i])] ]

EmptyStaging == [config |-> NoFile, manifest |-> NoFile, blobs |-> {}]

\* TeeWriter::new over two empty sinks, before any call.
TeeIdle ==
    [writer1 |-> <<>>, writer2 |-> <<>>, ret |-> [st |-> "none"],
     buf |-> <<>>, pre1 |-> <<>>, pre2 |-> <<>>, clean |-> TRUE, writes |-> 0]

\* The state after Analyzer::load: an exported image whose layer files are
\* all stored raw or all stored gzip-compressed, and whose config records
\* the diff id of every layer.
Init ==
    /\ \E tars \in ImageTars(PipelineEntries, MaxEntries), gz \in BOOLEAN :
          image = [ i \in LayerIdx |-> [gz |-> gz, tar |-> tars[i]] ]
    /\ layers = load_from_tar(image)
    /\ min_size \in 1 .. MaxMinSize
    /\ no_compression \in BOOLEAN
    /\ pc = "scan"
    /\ scanRes = [i \in LayerIdx |-> Pending]
    /\ dupResult = Pending
    /\ plan = Pending
    /\ procRes = [i \in LayerIdx |-> Pending]
    /\ workFiles = [i \in LayerIdx |-> NoFile]
    /\ staging = EmptyStaging
    /\ output = NoFile
    /\ result = Pending
    /\ rerun = Pending
    /\ teeWriter = TeeIdle

\* ------------------------------------------------------------------ scan
\* A filter that also drops the files whose size equals the threshold.
QualifiesStrict(entry, minsz) ==
    /\ entry.etype = "file"
    /\ ~ (entry.size <= minsz)
    /\ ~ (ContainsWh(entry.path) \/ EndsWithOpq(entry.path))

\* scan_layer's filter: which entries become a FileInfo.
Qualifies(entry, minsz) ==
    /\ entry.etype = "file"
    /\ ~ (entry.size < minsz)
    /\ ~ (ContainsWh(entry.path) \/ EndsWithOpq(entry.path))

RECURSIVE scan_entries(_, _, _)
scan_entries(tar, minsz, idx) ==
    IF tar = <<>> THEN <<>>
    ELSE LET entry == Head(tar)
             rest == scan_entries(Tail(tar), minsz, idx)
         IN IF Qualifies(entry, minsz)
            THEN << [path |-> entry.path, size |-> entry.size,
                     hash |-> rapidhash(entry.content),
                     layer_index |-> idx] >> \o rest
            ELSE rest

\* scan_layer on a readable layer.
scan_layer(layer) ==
    scan_entries(open_reader(image[layer.layer_index]), min_size, layer.layer_index)

\* One worker of scan_files' par_iter: the layer is scanned, or reading it
\* fails (I/O failure, corrupt entry).
scan_layer_task(i) ==
    /\ pc = "scan"
    /\ scanRes[i] = Pending
    /\ \E ok \in BOOLEAN :
          scanRes' = [scanRes EXCEPT ![i] =
                         IF ok THEN [st |-> "ok", files |-> scan_layer(layers[i])]
                         ELSE [st |-> "err", layer |-> layers[i]]]
    /\ UNCHANGED << rerun, teeWriter, image, layers, min_size, no_compression, pc, dupResult,
                    plan, procRes, workFiles, staging, output, result >>

\* ------------------------------------------------------- find_duplicates
ScanFailed(res) == { i \in LayerIdx : res[i].st = "err" }
ScanPending(res) == { i \in LayerIdx : res[i] = Pending }

RECURSIVE FlattenFrom(_, _)
\* the per-layer lists concatenated in layer-index order.
FlattenFrom(res, i) ==
    IF i > NumLayers - 1 THEN <<>>
    ELSE (IF res[i].st = "ok" THEN res[i].files ELSE <<>>)
             \o FlattenFrom(res, i + 1)

\* A scan_files that drops the layers that failed and keeps the rest.
scan_files_lenient(res) == { [st |-> "ok", files |-> FlattenFrom(res, 0)] }

LayerOrders ==
    { p \in [1 .. NumLayers -> LayerIdx] :
        \A j, k \in 1 .. NumLayers : j # k => p[j] # p[k] }

RECURSIVE FlattenInOrder(_, _, _)
FlattenInOrder(res, order, k) ==
    IF k > NumLayers THEN <<>>
    ELSE (IF res[order[k]].st = "ok" THEN res[order[k]].files ELSE <<>>)
             \o FlattenInOrder(res, order, k + 1)

\* A scan_files whose workers push their lists as they finish, so the lists
\* are concatenated in completion order.
scan_files_unordered(res) ==
    IF ScanFailed(res) # {}
    THEN { [st |-> "err", layer |-> res[i].layer] : i \in ScanFailed(res) }
    ELSE { [st |-> "ok", files |-> FlattenInOrder(res, order, 1)] :
             order \in LayerOrders }

\* scan_files: the possible results of collecting the workers' results into
\* a Result: the error of a failed layer, with the layer in its message, or
\* the flattened list when no layer failed.
scan_files(res) ==
    IF ScanFailed(res) # {}
    THEN { [st |-> "err", layer |-> res[i].layer] : i \in ScanFailed(res) }
    ELSE { [st |-> "ok", files |-> FlattenFrom(res, 0)] }

RECURSIVE SortFrom(_, _)
\* files.sort_by_key(|f| f.layer_index): a stable sort.
SortFrom(files, l) ==
    IF l > NumLayers - 1 THEN <<>>
    ELSE FilterSeq(files, { f \in Range(files) : f.layer_index = l })
             \o SortFrom(files, l + 1)

\* A sort by layer index that does not keep the order of equal keys.
sort_by_layer_index_unstable(files) ==
    SortFrom([ k \in 1 .. Len(files) |-> files[Len(files) + 1 - k] ], 0)

sort_by_layer_index(files) == SortFrom(files, 0)

\* files_by_hash: the files of one fingerprint, in scan order.
files_by_hash(files, h) == FilterSeq(files, { f \in Range(files) : f.hash = h })

\* The map closure of find_duplicates, applied to one bucket.
MakeDuplicateInfo(bucket) ==
    LET sorted == sort_by_layer_index(bucket)
        target == Head(sorted)
        rest == Tail(sorted)
    IN [original |-> target, duplicates |-> rest,
        total_savings |-> target.size * Len(rest)]

\* The groups find_duplicates builds from the scanned files.
DuplicateGroups(files) ==
    { MakeDuplicateInfo(files_by_hash(files, h)) :
        h \in { g \in { f.hash : f \in Range(files) } :
                    Len(files_by_hash(files, g)) > 1 } }

\* sorted_by_key(Reverse(total_savings)) over the HashMap's iteration order:
\* every order of the groups with non-increasing savings can come out.
SortedGroupOrders(groups) ==
    { s \in [1 .. Cardinality(groups) -> groups] :
        /\ \A j, k \in DOMAIN s : j # k => s[j] # s[k]
        /\ \A j, k \in DOMAIN s :
               j < k => s[j].total_savings >= s[k].total_savings }

\* find_duplicates after the parallel scan (a failure may cut the remaining
\* workers short): the error of scan_files is passed on, otherwise the files
\* are grouped.
find_duplicates ==
    /\ pc = "scan"
    /\ ScanPending(scanRes) = {} \/ ScanFailed(scanRes) # {}
    /\ \E files \in scan_files(scanRes) :
          IF files.st = "err"
          THEN /\ dupResult' = files
               /\ pc' = "failed"
          ELSE /\ \E order \in SortedGroupOrders(DuplicateGroups(files.files)) :
                     dupResult' = [st |-> "ok", dups |-> order,
                                   files |-> files.files]
               /\ pc' = "grouped"
    /\ UNCHANGED << rerun, teeWriter, image, layers, min_size, no_compression, scanRes, plan,
                    procRes, workFiles, staging, output, result >>

\* ---------------------------------------------- generate_modification_plan
\* A transaction with the link types exchanged.
MakeTransactionInverted(d, f) ==
    [layer |-> f.layer_index,
     original_path |-> d.original.path,
     target_path |-> f.path,
     link_type |-> IF d.original.layer_index = f.layer_index
                   THEN "Sym" ELSE "Hard"]

\* The transaction the plan holds for duplicate f of group d.
MakeTransaction(d, f) ==
    [layer |-> f.layer_index,
     original_path |-> d.original.path,
     target_path |-> f.path,
     link_type |-> IF d.original.layer_index = f.layer_index
                   THEN "Hard" ELSE "Sym"]

RECURSIVE GroupTransactions(_, _)
GroupTransactions(d, fs) ==
    IF fs = <<>> THEN <<>>
    ELSE << MakeTransaction(d, Head(fs)) >> \o GroupTransactions(d, Tail(fs))

RECURSIVE AllTransactions(_)
\* the flat_map of generate_modification_plan: group by group, and within a
\* group duplicate by duplicate.
AllTransactions(dups) ==
    IF dups = <<>> THEN <<>>
    ELSE GroupTransactions(Head(dups), Head(dups).duplicates)
             \o AllTransactions(Tail(dups))

\* into_group_map: per layer index the transactions filed under it, in the
\* order they were produced.  A layer without transactions has no key; the
\* empty list stands for the missing key.
generate_modification_plan(dups) ==
    LET txs == AllTransactions(dups)
    IN [ i \in LayerIdx |->
           FilterSeq(txs, { t \in Range(txs) : t.layer = i }) ]

\* A lookup that finds a (possibly empty) transaction list for every layer.
HasPlanAlways(p, i) == TRUE

HasPlan(p, i) == p[i] # <<>>

\* ------------------------------------------------------- build_layer_tar
ReadFile(path) ==
    IF path[1] = "extracted" THEN image[path[2]] ELSE workFiles[path[2]]

\* TeeWriter: every write goes to writer1 and to writer2.
TeeNew == [writer1 |-> <<>>, writer2 |-> <<>>]

\* A write that reaches writer1 only.
TeeWriteFirstOnly(tee, buf) ==
    [writer1 |-> tee.writer1 \o buf, writer2 |-> tee.writer2]

TeeWrite(tee, buf) ==
    [writer1 |-> tee.writer1 \o buf, writer2 |-> tee.writer2 \o buf]

\* A link entry with the two path arguments of append_link exchanged.
LinkEntrySwapped(modif) ==
    [path |-> modif.original_path, etype |-> "symlink", size |-> 0,
     content |-> <<>>, linkname |-> modif.target_path, meta |-> "link"]

\* The link entry build_layer_tar appends for a transaction: a symlink
\* header with fixed mode, owner and mtime, for both link types.
LinkEntry(modif) ==
    [path |-> modif.target_path, etype |-> "symlink", size |-> 0,
     content |-> <<>>, linkname |-> modif.original_path, meta |-> "link"]

\* mods_by_target: the keys of the lookup.
mods_by_target(modifications) ==
    { modifications[k].target_path : k \in 1 .. Len(modifications) }

RECURSIVE CopyAllEntries(_, _, _)
\* A first loop without the "continue": every entry is appended.
CopyAllEntries(tee, tar, targets) ==
    IF tar = <<>> THEN tee
    ELSE CopyAllEntries(TeeWrite(tee, << Head(tar) >>), Tail(tar), targets)

RECURSIVE CopyEntries(_, _, _)
\* the first loop of build_layer_tar: drop the targeted entries, append the
\* others with their own header, path and content.
CopyEntries(tee, tar, targets) ==
    IF tar = <<>> THEN tee
    ELSE IF Head(tar).path \in targets
         THEN CopyEntries(tee, Tail(tar), targets)
         ELSE CopyEntries(TeeWrite(tee, << Head(tar) >>), Tail(tar), targets)

RECURSIVE AppendLinks(_, _)
\* the second loop: one link entry per transaction, in list order.
AppendLinks(tee, modifications) ==
    IF modifications = <<>> THEN tee
    ELSE AppendLinks(TeeWrite(tee, << LinkEntry(Head(modifications)) >>),
                     Tail(modifications))

\* build_layer_tar: what the writer and the hasher have received.
build_layer_tar(layer, modifications) ==
    AppendLinks(
        CopyEntries(TeeNew, open_reader(ReadFile(layer.path)),
                    mods_by_target(modifications)),
        modifications)

\* --------------------------------------------------------- process_layer
\* The file process_layer leaves under new_layers/.
ProcessedFile(layer, modifications) ==
    LET tee == build_layer_tar(layer, modifications)
    IN IF no_compression THEN RawFile(tee.writer1) ELSE GzFile(tee.writer1)

\* A hash taken over the file as stored instead of the stream the hasher saw.
stored_file_hash(layer, modifications) ==
    Sha256Prefixed(ProcessedFile(layer, modifications))

\* The hash process_layer returns: the hasher saw the uncompressed stream.
uncompressed_hash(layer, modifications) ==
    Sha256Prefixed(RawFile(build_layer_tar(layer, modifications).writer2))

process_layer(layer, modifications) ==
    [path |-> NewLayerPath(layer.layer_index),
     layer_index |-> layer.layer_index,
     hash |-> uncompressed_hash(layer, modifications)]

\* create_deduplicated_image up to the parallel rewrite: the work directory
\* is created (or not) and the plan is built.
create_deduplicated_image_begin ==
    /\ pc = "grouped"
    /\ \E ok \in BOOLEAN :
          IF ok
          THEN /\ plan' = generate_modification_plan(dupResult.dups)
               /\ pc' = "rewrite"
               /\ UNCHANGED result
          ELSE /\ result' = [st |-> "err", at |-> "work_dir"]
               /\ pc' = "done"
               /\ UNCHANGED plan
    /\ UNCHANGED << rerun, teeWriter, image, layers, min_size, no_compression, scanRes,
                    dupResult, procRes, workFiles, staging, output >>

\* One worker of the rewrite's par_iter, for a layer with a plan.
process_layer_task(i) ==
    /\ pc = "rewrite"
    /\ procRes[i] = Pending
    /\ HasPlan(plan, i)
    /\ \E ok \in BOOLEAN :
          IF ok
          THEN /\ procRes' = [procRes EXCEPT ![i] =
                      [st |-> "ok", layer |-> process_layer(layers[i], plan[i]),
                       rewritten |-> TRUE]]
               /\ workFiles' = [workFiles EXCEPT ![i] =
                      ProcessedFile(layers[i], plan[i])]
          ELSE /\ procRes' = [procRes EXCEPT ![i] = [st |-> "err"]]
               /\ UNCHANGED workFiles
    /\ UNCHANGED << rerun, teeWriter, image, layers, min_size, no_compression, pc, scanRes,
                    dupResult, plan, staging, output, result >>

\* One worker of the rewrite's par_iter, for a layer without a plan:
\* Ok(layer.clone()).
pass_through_task(i) ==
    /\ pc = "rewrite"
    /\ procRes[i] = Pending
    /\ ~ HasPlan(plan, i)
    /\ procRes' = [procRes EXCEPT ![i] =
           [st |-> "ok", layer |-> layers[i], rewritten |-> FALSE]]
    /\ UNCHANGED << rerun, teeWriter, image, layers, min_size, no_compression, pc, scanRes,
                    dupResult, plan, workFiles, staging, output, result >>

\* ------------------------------------------------------------ reassembly
\* The Vec of new layers, in layer-index order.
NewLayers(res) == [ k \in 1 .. NumLayers |-> res[k - 1].layer ]

\* update_config: the original config with diff_ids replaced by the new
\* layers' hashes.
update_config(new_layers) ==
    [diff_ids |-> [ k \in 1 .. Len(new_layers) |-> new_layers[k].hash ]]

\* The blob path update_manifest records for one layer.
BlobRef(name) == [dir |-> "blobs/sha256", name |-> name]

layer_ref(layer) ==
    IF no_compression
    THEN BlobRef(layer.hash)
    ELSE BlobRef(Sha256Hex(ReadFile(layer.path)))

\* The blobs update_manifest copies for the first n layers: none when
\* compression is disabled, else the layer file under its digest.
copied_blobs(new_layers, n) ==
    IF no_compression THEN {}
    ELSE { [name |-> Sha256Hex(ReadFile(new_layers[k].path)),
            bytes |-> ReadFile(new_layers[k].path)] : k \in 1 .. n }

\* update_manifest: the original manifest with the layer references and the
\* repo tag replaced.
update_manifest(new_layers) ==
    [layers |-> [ k \in 1 .. Len(new_layers) |-> layer_ref(new_layers[k]) ],
     repo_tags |-> << "test:smaller" >>]

ProcFailed == { i \in LayerIdx : procRes[i].st = "err" }
ProcPending == { i \in LayerIdx : procRes[i] = Pending }

FailPoints == { "none", "update_config", "update_manifest", "create_output", "pack" }

\* create_deduplicated_image after the parallel rewrite.  The collect fails
\* if a layer failed.  Otherwise config and manifest are staged, the output
\* file is created and the staged tree is packed; fp is the step that fails
\* (if any), copied the number of layers update_manifest got through before
\* failing, write_ok whether Manifest::write_to_file succeeded, whose result
\* update_manifest discards.
create_deduplicated_image_finish ==
    /\ pc = "rewrite"
    /\ ProcPending = {} \/ ProcFailed # {}
    /\ pc' = "done"
    /\ IF ProcFailed # {}
       THEN /\ result' = [st |-> "err", at |-> "process_layer"]
            /\ UNCHANGED << staging, output >>
       ELSE \E fp \in FailPoints, write_ok \in BOOLEAN, copied \in 0 .. (NumLayers - 1) :
              LET new_layers == NewLayers(procRes)
                  cfg == IF fp = "update_config" THEN NoFile
                         ELSE update_config(new_layers)
                  reached == fp \notin { "update_config", "update_manifest" }
                  blobs == IF fp = "update_config" THEN {}
                           ELSE IF fp = "update_manifest"
                                THEN copied_blobs(new_layers, copied)
                                ELSE copied_blobs(new_layers, NumLayers)
                  man == IF reached /\ write_ok
                         THEN update_manifest(new_layers) ELSE NoFile
                  tree == [config |-> cfg, manifest |-> man, blobs |-> blobs]
              IN /\ staging' = tree
                 /\ output' = CASE fp = "none" -> [st |-> "packed", tree |-> tree]
                                [] fp = "pack" -> [st |-> "partial"]
                                [] OTHER -> NoFile
                 /\ result' = IF fp = "none" THEN [st |-> "ok"]
                              ELSE [st |-> "err", at |-> fp]
    /\ UNCHANGED << rerun, teeWriter, image, layers, min_size, no_compression, scanRes,
                    dupResult, plan, procRes, workFiles >>

Next ==
    \/ \E i \in LayerIdx : scan_layer_task(i)
    \/ find_duplicates
    \/ create_deduplicated_image_begin
    \/ \E i \in LayerIdx : process_layer_task(i)
    \/ \E i \in LayerIdx : pass_through_task(i)
    \/ create_deduplicated_image_finish

Spec == Init /\ [][Next]_vars

\* ------------------------------------------------- the scan on its own
\* The scan of an image whose first layer holds entries of every kind the
\* filter of scan_layer tells apart.
InitScan ==
    /\ \E tar \in SeqsUpTo(ScanEntries, MaxScanEntries), gz \in BOOLEAN :
          image = [ i \in LayerIdx |->
                      [gz |-> gz, tar |-> IF i = 0 THEN tar ELSE <<>>] ]
    /\ layers = load_from_tar(image)
    /\ min_size \in 1 .. MaxMinSize
    /\ no_compression = FALSE
    /\ pc = "scan"
    /\ scanRes = [i \in LayerIdx |-> Pending]
    /\ dupResult = Pending
    /\ plan = Pending
    /\ procRes = [i \in LayerIdx |-> Pending]
    /\ workFiles = [i \in LayerIdx |-> NoFile]
    /\ staging = EmptyStaging
    /\ output = NoFile
    /\ result = Pending
    /\ rerun = Pending
    /\ teeWriter = TeeIdle

NextScan == \E i \in LayerIdx : scan_layer_task(i)

SpecScan == InitScan /\ [][NextScan]_vars

\* ------------------------------------------- find_duplicates, run twice
InitRerun ==
    /\ \E tars \in ImageTars(RerunEntries, MaxRerunEntries), gz \in BOOLEAN :
          image = [ i \in LayerIdx |-> [gz |-> gz, tar |-> tars[i]] ]
    /\ layers = load_from_tar(image)
    /\ min_size \in 1 .. MaxMinSize
    /\ no_compression = FALSE
    /\ pc = "scan"
    /\ scanRes = [i \in LayerIdx |-> Pending]
    /\ dupResult = Pending
    /\ plan = Pending
    /\ procRes = [i \in LayerIdx |-> Pending]
    /\ workFiles = [i \in LayerIdx |-> NoFile]
    /\ staging = EmptyStaging
    /\ output = NoFile
    /\ result = Pending
    /\ rerun = Pending
    /\ teeWriter = TeeIdle

\* A second call of find_duplicates on the same Analyzer, as one step: a
\* layer's scan fails, or every layer is scanned again and the files are
\* grouped through a new HashMap.
find_duplicates_rerun ==
    /\ pc = "grouped"
    /\ rerun = Pending
    /\ \/ \E i \in LayerIdx : rerun' = [st |-> "err", layer |-> layers[i]]
       \/ \E files \in scan_files([ i \in LayerIdx |->
                          [st |-> "ok", files |-> scan_layer(layers[i])] ]) :
            \E order \in SortedGroupOrders(DuplicateGroups(files.files)) :
                rerun' = [st |-> "ok", dups |-> order, files |-> files.files]
    /\ UNCHANGED << teeWriter, image, layers, min_size, no_compression, pc,
                    scanRes, dupResult, plan, procRes, workFiles, staging,
                    output, result >>

NextRerun ==
    \/ \E i \in LayerIdx : scan_layer_task(i)
    \/ find_duplicates
    \/ find_duplicates_rerun

SpecRerun == InitRerun /\ [][NextRerun]_vars

\* ------------------------------------------------------ TeeWriter::write
Bytes == { 0, 1 }

InitTee ==
    /\ image = [ i \in LayerIdx |-> RawFile(<<>>) ]
    /\ layers = load_from_tar(image)
    /\ min_size = 1
    /\ no_compression = FALSE
    /\ pc = "tee"
    /\ scanRes = [i \in LayerIdx |-> Pending]
    /\ dupResult = Pending
    /\ plan = Pending
    /\ procRes = [i \in LayerIdx |-> Pending]
    /\ workFiles = [i \in LayerIdx |-> NoFile]
    /\ staging = EmptyStaging
    /\ output = NoFile
    /\ result = Pending
    /\ rerun = Pending
    /\ teeWriter = TeeIdle

\* One call of TeeWriter::write.  write_all on a sink either delivers the
\* whole buffer or fails after a strict prefix of it; `?` returns the first
\* failure.  The caller (build_layer_tar) stops at the first Err.
tee_write ==
    /\ pc = "tee"
    /\ teeWriter.clean
    /\ teeWriter.writes < MaxWrites
    /\ \E buf \in SeqsUpTo(Bytes, MaxBuf) :
         LET pre == [writer1 |-> teeWriter.writer1,
                     writer2 |-> teeWriter.writer2]
             call == [buf |-> buf, pre1 |-> pre.writer1, pre2 |-> pre.writer2,
                      writes |-> teeWriter.writes + 1]
         IN \/ teeWriter' = TeeWrite(pre, buf) @@ call @@
                    [ret |-> [st |-> "ok", n |-> Len(buf)], clean |-> TRUE]
            \/ \E k \in 0 .. Len(buf) - 1 :
                 teeWriter' =
                    [writer1 |-> pre.writer1 \o SubSeqOrEmpty(buf, 1, k),
                     writer2 |-> pre.writer2] @@ call @@
                    [ret |-> [st |-> "err", by |-> "writer1"],
                     clean |-> FALSE]
            \/ \E k \in 0 .. Len(buf) - 1 :
                 teeWriter' =
                    [writer1 |-> pre.writer1 \o buf,
                     writer2 |-> pre.writer2 \o SubSeqOrEmpty(buf, 1, k)]
                    @@ call @@
                    [ret |-> [st |-> "err", by |-> "writer2"],
                     clean |-> FALSE]
    /\ UNCHANGED << rerun, image, layers, min_size, no_compression, pc,
                    scanRes, dupResult, plan, procRes, workFiles, staging,
                    output, result >>

NextTee == tee_write

SpecTee == InitTee /\ [][NextTee]_vars

\* ================================================================ claims
Succeeded == pc = "done" /\ result.st = "ok"

\* The file that backs layer i of the new layer chain.
FinalFile(i) == ReadFile(procRes[i].layer.path)

Rewritten(i) == procRes[i].st = "ok" /\ procRes[i].rewritten
PassedThrough(i) == procRes[i].st = "ok" /\ ~ procRes[i].rewritten

\* C1: after create_deduplicated_image succeeds, the packed config holds one
\* diff id per layer, in layer order, and the diff id at index i is the
\* SHA-256 digest of the uncompressed tar bytes of the file that backs final
\* layer i, whether the layer was rewritten or passed through and whether
\* layers are compressed or not.
C1_DiffIdsMatchFinalLayers ==
    Succeeded =>
        LET diff_ids == output.tree.config.diff_ids
        IN /\ Len(diff_ids) = NumLayers
           /\ \A i \in LayerIdx :
                  diff_ids[i + 1] = Sha256Prefixed(RawFile(GzDecoder(FinalFile(i))))

\* C1 witness: a successful compressed run over an image with a rewritten
\* layer and a passed-through layer.
C1_Witness ==
    /\ Succeeded
    /\ ~ no_compression
    /\ \E i, j \in LayerIdx : Rewritten(i) /\ PassedThrough(j)

\* C2: after a successful run, the packed manifest names for every layer a
\* blob blobs/sha256/<digest> that exists in the staged tree, holds the bytes
\* of the file backing that layer and hashes to the digest in its name.
C2_ManifestBlobsResolve ==
    Succeeded =>
        /\ output.tree.manifest # NoFile
        /\ Len(output.tree.manifest.layers) = NumLayers
        /\ \A i \in LayerIdx :
               LET ref == output.tree.manifest.layers[i + 1]
               IN /\ ref.dir = "blobs/sha256"
                  /\ \E b \in output.tree.blobs :
                         /\ b.name = ref.name
                         /\ b.bytes = FinalFile(i)
                         /\ b.name = Sha256Hex(b.bytes)

\* The part of a rewritten layer that precedes its appended link entries.
CopiedPart(i) ==
    SubSeqOrEmpty(workFiles[i].tar, 1, Len(workFiles[i].tar) - Len(plan[i]))

\* The part of a rewritten layer made of the appended link entries.
LinkPart(i) ==
    SubSeqOrEmpty(workFiles[i].tar, Len(workFiles[i].tar) - Len(plan[i]) + 1,
                  Len(workFiles[i].tar))

TargetsOf(i) == { t.target_path : t \in Range(plan[i]) }

\* C3: in every rewritten layer the copied entries are exactly the original
\* entries whose path is not a transaction target, unchanged and in their
\* original order, and none of them has a targeted path.
C3_NonTargetsCopiedInOrder ==
    \A i \in LayerIdx :
        Rewritten(i) =>
            LET orig == GzDecoder(image[i])
            IN /\ CopiedPart(i) =
                      FilterSeq(orig, { e \in Range(orig) : e.path \notin TargetsOf(i) })
               /\ \A e \in Range(CopiedPart(i)) : e.path \notin TargetsOf(i)

\* C3 witness: a rewritten layer that kept an entry and dropped another.
C3_Witness ==
    \E i \in LayerIdx :
        /\ Rewritten(i)
        /\ CopiedPart(i) # <<>>
        /\ Len(CopiedPart(i)) < Len(image[i].tar)

\* C4: a rewritten layer ends with one link entry per transaction of its
\* plan, in plan order, named by the transaction's target path and pointing
\* to the original's path; no link entry precedes a copied entry.
C4_LinksAppendedInPlanOrder ==
    \A i \in LayerIdx :
        Rewritten(i) =>
            /\ Len(workFiles[i].tar) >= Len(plan[i])
            /\ Len(LinkPart(i)) = Len(plan[i])
            /\ \A k \in 1 .. Len(plan[i]) :
                   /\ LinkPart(i)[k].etype = "symlink"
                   /\ LinkPart(i)[k].path = plan[i][k].target_path
                   /\ LinkPart(i)[k].linkname = plan[i][k].original_path
            /\ \A e \in Range(CopiedPart(i)) : e \in Range(image[i].tar)

\* C4 witness: a rewritten layer with two transactions for different paths.
C4_Witness ==
    \E i \in LayerIdx :
        /\ Rewritten(i)
        /\ Len(plan[i]) >= 2
        /\ plan[i][1].target_path # plan[i][2].target_path

Planned == pc \in { "rewrite", "done" } /\ plan # Pending

\* The transactions of the whole plan that target path p of layer i.
TargetCount(i, p) ==
    Cardinality({ k \in 1 .. Len(plan[i]) : plan[i][k].target_path = p })

\* C5: every duplicate of every group is the target (layer index, path) of
\* exactly one transaction of the plan, and no group's original is the
\* target of any transaction.
C5_PlanCompleteness ==
    Planned =>
        \A d \in Range(dupResult.dups) :
            /\ \A f \in Range(d.duplicates) : TargetCount(f.layer_index, f.path) = 1
            /\ TargetCount(d.original.layer_index, d.original.path) = 0

\* C6: every group has at least one duplicate, its original is not among
\* its duplicates, the original's layer index is at most that of every
\* duplicate, and total_savings is the original's size times the number of
\* duplicates.
C6_GroupingInvariant ==
    dupResult.st = "ok" =>
        \A d \in Range(dupResult.dups) :
            /\ Len(d.duplicates) >= 1
            /\ d.original \notin Range(d.duplicates)
            /\ \A f \in Range(d.duplicates) :
                   d.original.layer_index <= f.layer_index
            /\ d.total_savings = d.original.size * Len(d.duplicates)

\* The condition under which the scan keeps an entry.
Kept(e) ==
    /\ e.etype = "file"
    /\ e.size >= min_size
    /\ \A k \in 2 .. Len(e.path) : e.path[k] \notin WhComponents
    /\ e.path[Len(e.path)] \notin OpqComponents

\* C7: a completed scan of a layer returns one FileInfo per tar entry that is
\* a regular file of size at least min_size whose path neither contains
\* "/.wh." nor ends with ".wh..wh..opq", in entry order, and nothing for any
\* other entry; a layer with excluded entries still scans successfully.
C7_ExclusionCorrectness ==
    \A i \in LayerIdx :
        scanRes[i].st = "ok" =>
            LET tar == image[i].tar
                kept == FilterSeq(tar, { e \in Range(tar) : Kept(e) })
                files == scanRes[i].files
            IN /\ Len(files) = Len(kept)
               /\ \A k \in 1 .. Len(kept) :
                      /\ files[k].path = kept[k].path
                      /\ files[k].size = kept[k].size
                      /\ files[k].layer_index = i

\* C7 witness: a completed scan that kept a file whose size equals the
\* threshold and skipped a file one byte smaller.
C7_Witness ==
    /\ scanRes[0].st = "ok"
    /\ Len(image[0].tar) = 2
    /\ Len(scanRes[0].files) = 1
    /\ scanRes[0].files[1].size = min_size
    /\ \E e \in Range(image[0].tar) :
           e.etype = "file" /\ e.size = min_size - 1 /\ e.path = << "a" >>

\* The contents of the entries a FileInfo can stand for.
ContentsOf(f) ==
    { e.content : e \in { x \in Range(image[f.layer_index].tar) :
                              /\ x.path = f.path
                              /\ x.size = f.size
                              /\ rapidhash(x.content) = f.hash } }

\* C8: in every group, every duplicate has the same content as the original.
C8_ExactContentDuplicates ==
    dupResult.st = "ok" =>
        \A d \in Range(dupResult.dups) :
            \A f \in Range(d.duplicates) : ContentsOf(f) = ContentsOf(d.original)

\* C9: every transaction of the plan is filed under the layer index of the
\* duplicate it replaces and is Hard exactly when that duplicate and its
\* original are in the same layer, Sym otherwise; every duplicate has such a
\* transaction.
C9_LinkKindAndFiling ==
    Planned =>
        /\ \A i \in LayerIdx :
               \A t \in Range(plan[i]) :
                   /\ t.layer = i
                   /\ \E d \in Range(dupResult.dups) :
                          \E f \in Range(d.duplicates) :
                              /\ f.layer_index = i
                              /\ f.path = t.target_path
                              /\ d.original.path = t.original_path
                              /\ (t.link_type = "Hard")
                                     <=> (f.layer_index = d.original.layer_index)
                              /\ (t.link_type = "Sym")
                                     <=> (f.layer_index # d.original.layer_index)
        /\ \A d \in Range(dupResult.dups) :
               \A f \in Range(d.duplicates) :
                   \E t \in Range(plan[f.layer_index]) :
                       /\ t.target_path = f.path
                       /\ t.original_path = d.original.path
                       /\ (t.link_type = "Hard")
                              <=> (f.layer_index = d.original.layer_index)

\* C9 witness: a plan with a Hard transaction and a Sym transaction.
C9_Witness ==
    /\ Planned
    /\ \E i, j \in LayerIdx :
           /\ \E t \in Range(plan[i]) : t.link_type = "Hard"
           /\ \E t \in Range(plan[j]) : t.link_type = "Sym"

\* C10: once a layer's scan has failed, find_duplicates returns an error that
\* names a failed layer and carries no file list; once a layer's rewrite has
\* failed, create_deduplicated_image returns an error; config, manifest and
\* output file exist only if every layer was rewritten or passed through
\* successfully.
C10_LayerFailureAborts ==
    /\ (pc # "scan" /\ ScanFailed(scanRes) # {}) =>
           /\ dupResult.st = "err"
           /\ DOMAIN dupResult = { "st", "layer" }
           /\ \E i \in ScanFailed(scanRes) : dupResult.layer = layers[i]
    /\ (pc = "done" /\ ProcFailed # {}) => result.st = "err"
    /\ (staging.config # NoFile \/ staging.manifest # NoFile \/ output # NoFile) =>
           \A i \in LayerIdx : procRes[i].st = "ok"

\* C10 witness: a run that ended in an error because a layer's rewrite
\* failed after another layer had been processed.
C10_Witness ==
    /\ pc = "done"
    /\ ProcFailed # {}
    /\ \E i \in LayerIdx : procRes[i].st = "ok"
    /\ result.st = "err"
    /\ output = NoFile

\* C11: a run that returns success has packed an archive that holds the
\* rewritten config and the rewritten manifest; a failed write of either makes
\* the run fail.
C11_OutputErrorsFatal ==
    Succeeded =>
        /\ output.st = "packed"
        /\ output.tree.config # NoFile
        /\ output.tree.manifest # NoFile

\* C12: a layer without transactions in the plan is not rewritten: no file
\* is written for it under new_layers/, and its entry in the new layer chain
\* is the loaded layer, with the same path, layer index and digest.
C12_PassThroughUnmodified ==
    Planned =>
        \A i \in LayerIdx :
            (plan[i] = <<>> /\ procRes[i].st = "ok") =>
                /\ ~ procRes[i].rewritten
                /\ workFiles[i] = NoFile
                /\ procRes[i].layer.path = layers[i].path
                /\ procRes[i].layer.layer_index = layers[i].layer_index
                /\ procRes[i].layer.hash = layers[i].hash
                /\ FinalFile(i) = image[i]

\* C12 witness: a successful run without compression that passed a
\* gzip-compressed layer through beside a rewritten one.
C12_Witness ==
    /\ Succeeded
    /\ no_compression
    /\ \E i, j \in LayerIdx :
           /\ PassedThrough(i)
           /\ image[i].gz
           /\ image[i].tar # <<>>
           /\ Rewritten(j)

\* The FileInfo records of layer i, read off the layer's tar entry by entry.
ExpectedFiles(i) ==
    LET tar == image[i].tar
        kept == FilterSeq(tar, { e \in Range(tar) : Kept(e) })
    IN [ k \in 1 .. Len(kept) |->
           [path |-> kept[k].path, size |-> kept[k].size,
            hash |-> rapidhash(kept[k].content), layer_index |-> i] ]

RECURSIVE ExpectedFrom(_)
ExpectedFrom(i) ==
    IF i > NumLayers - 1 THEN <<>> ELSE ExpectedFiles(i) \o ExpectedFrom(i + 1)

\* C13: whatever the order in which the scan workers ran, the list scan_files
\* returned is the one determined by the image and the threshold: the
\* records of layer 0 in entry order, then those of layer 1, and so on.
C13_ScanDeterminism ==
    dupResult.st = "ok" => dupResult.files = ExpectedFrom(0)

\* C13 witness: a scan that returned records of two different layers.
C13_Witness ==
    /\ dupResult.st = "ok"
    /\ \E j, k \in 1 .. Len(dupResult.files) :
           dupResult.files[j].layer_index # dupResult.files[k].layer_index

\* The entries of layer i that the scan keeps and that have fingerprint h,
\* in tar order.
MembersIn(i, h) ==
    LET tar == image[i].tar
    IN FilterSeq(tar, { e \in Range(tar) : Kept(e) /\ rapidhash(e.content) = h })

\* C14: the original of every group is in the lowest layer that holds a
\* member of the group and is the first member in that layer's tar order;
\* the other members of that layer are duplicates, in tar order.
C14_OriginalIsEarliest ==
    dupResult.st = "ok" =>
        \A d \in Range(dupResult.dups) :
            LET l0 == d.original.layer_index
                members == MembersIn(l0, d.original.hash)
                same == FilterSeq(d.duplicates,
                                  { f \in Range(d.duplicates) : f.layer_index = l0 })
            IN /\ \A i \in LayerIdx : i < l0 => MembersIn(i, d.original.hash) = <<>>
               /\ members # <<>>
               /\ d.original.path = members[1].path
               /\ d.original.size = members[1].size
               /\ Len(same) = Len(members) - 1
               /\ \A k \in 1 .. Len(same) :
                      /\ same[k].path = members[k + 1].path
                      /\ same[k].size = members[k + 1].size

\* C14 witness: a group whose lowest layer holds two members under different
\* paths, with a further member in a higher layer.
C14_Witness ==
    /\ dupResult.st = "ok"
    /\ \E d \in Range(dupResult.dups) :
           /\ \E f \in Range(d.duplicates) :
                  /\ f.layer_index = d.original.layer_index
                  /\ f.path # d.original.path
           /\ \E f \in Range(d.duplicates) :
                  f.layer_index > d.original.layer_index

\* C15: find_duplicates returns the groups in order of non-increasing
\* total_savings, and a second execution on the same image returns the same
\* sequence of groups, hence the same plan.
C15_DeterministicGroupOrder ==
    (dupResult.st = "ok" /\ rerun.st = "ok") =>
        /\ \A j, k \in 1 .. Len(dupResult.dups) :
               j < k => dupResult.dups[j].total_savings
                            >= dupResult.dups[k].total_savings
        /\ rerun.dups = dupResult.dups
        /\ generate_modification_plan(rerun.dups)
               = generate_modification_plan(dupResult.dups)

\* C16: a write call of TeeWriter that returns Ok returns the full buffer
\* length and has delivered the whole buffer to writer1 and to writer2; as
\* long as every call succeeded both sinks hold the same bytes; when writer1
\* fails the error is returned and writer2 has received none of that buffer.
C16_TeeForwardsToBoth ==
    /\ teeWriter.ret.st = "ok" =>
         /\ teeWriter.ret.n = Len(teeWriter.buf)
         /\ teeWriter.writer1 = teeWriter.pre1 \o teeWriter.buf
         /\ teeWriter.writer2 = teeWriter.pre2 \o teeWriter.buf
    /\ teeWriter.clean => teeWriter.writer1 = teeWriter.writer2
    /\ (teeWriter.ret.st = "err" /\ teeWriter.ret.by = "writer1") =>
         teeWriter.writer2 = teeWriter.pre2

C16_Witness ==
    /\ teeWriter.ret.st = "ok"
    /\ teeWriter.writes >= 2
    /\ Len(teeWriter.buf) >= 1
    /\ Len(teeWriter.pre1) >= 1
    /\ teeWriter.writer2 = teeWriter.pre2 \o teeWriter.buf

\* The entry stream a runtime sees when it stacks the layers: layer 0 first,
\* each later layer on top of it.
RECURSIVE StackFrom(_, _)
StackFrom(tarOf, i) ==
    IF i >= NumLayers THEN <<>> ELSE tarOf[i] \o StackFrom(tarOf, i + 1)

InputStack == StackFrom([ i \in LayerIdx |-> open_reader(image[i]) ], 0)
OutputStack == StackFrom([ i \in LayerIdx |-> open_reader(FinalFile(i)) ], 0)

\* The entry the union view shows at path p: the topmost one.
Occurrences(stack, p) == { k \in 1 .. Len(stack) : stack[k].path = p }
Visible(stack, p) ==
    LET ks == Occurrences(stack, p)
    IN stack[CHOOSE k \in ks : \A j \in ks : j <= k]

\* The content path p resolves to in the union view, following symlinks.
RECURSIVE ResolveIn(_, _, _)
ResolveIn(stack, p, fuel) ==
    IF Occurrences(stack, p) = {} THEN [st |-> "absent"]
    ELSE LET e == Visible(stack, p)
         IN IF e.etype = "symlink"
            THEN IF fuel = 0 THEN [st |-> "loop"]
                 ELSE ResolveIn(stack, e.linkname, fuel - 1)
            ELSE [st |-> "file", content |-> e.content]

Resolve(stack, p) == ResolveIn(stack, p, Len(stack))

\* C17: after a successful run, every path that was replaced by a link
\* resolves, in the union view of the output image, to the content the path
\* had in the union view of the input image.
C17_UnionViewPreserved ==
    Succeeded =>
        \A i \in LayerIdx :
            \A p \in TargetsOf(i) :
                Resolve(OutputStack, p) = Resolve(InputStack, p)
====
